---- MODULE Spec2Model ----
(***************************************************************************)
(* Project Guardian 2.0: the PII detector of detector_Barath_S.py.         *)
(*                                                                         *)
(* Python strings are TLA+ strings (Len, \o and SubSeq act on them), a     *)
(* character is a string of length 1, and a regular expression is an       *)
(* operator giving the length of its match at a position (0: no match      *)
(* there), computed as Python's backtracking matcher computes it.          *)
(*                                                                         *)
(* The strings are over U+0001..U+00FF, the characters a string of a       *)
(* module can hold.  On them \s, \w, \d and str.strip() are the            *)
(* Unicode-aware classes of Python 3.  Above U+00FF Python knows further   *)
(* spaces, digits and letters, and [A-Z] under re.IGNORECASE also takes    *)
(* U+017F and U+212A; no string of the model holds such a character.       *)
(*                                                                         *)
(* Three specifications share the variables:                               *)
(*   Spec      PIIDetector.analyze_record on one record                    *)
(*   SpecMask  PIIDetector.redact_text on one value                        *)
(*   SpecCsv   PIIDetector.process_csv on one file                         *)
(***************************************************************************)
EXTENDS Integers, Sequences, FiniteSets, TLC

VARIABLES
    data,                    \* analyze_record: the input record (ordered fields)
    idx,                     \* analyze_record: fields the loop has processed
    has_pii,                 \* analyze_record: the verdict so far
    redacted_data,           \* analyze_record: the output record so far
    combinatorial_elements,  \* analyze_record: bucket -> list of keys
    pc,                      \* analyze_record: "loop" | "done" | "idle"
    text,                    \* redact_text: the input value
    entity_type,             \* redact_text: the category asked for
    masked,                  \* redact_text: the result
    mpc,                     \* redact_text: "call" | "ret" | "idle"
    rows,                    \* process_csv: the file's rows
    bom,                     \* process_csv: the file starts with a byte order mark
    stops,                   \* process_csv: per pass begun, the exception that ends it
    enc,                     \* process_csv: index of the encoding being tried
    row_count,               \* process_csv: rows read under this encoding
    results,                 \* process_csv: the accumulated result rows
    file_read,               \* process_csv: a whole pass succeeded
    output,                  \* process_csv: what was written to the output file
    cpc                      \* process_csv: "open" | "rows" | "after" | "written" | "nothing" | "exit1" | "idle"

vars == << data, idx, has_pii, redacted_data, combinatorial_elements, pc,
           text, entity_type, masked, mpc,
           rows, bom, stops, enc, row_count, results, file_read,
           output, cpc >>

recVars == << data, idx, has_pii, redacted_data, combinatorial_elements, pc >>
maskVars == << text, entity_type, masked, mpc >>
csvVars == << rows, bom, stops, enc, row_count, results, file_read,
             output, cpc >>

(***************************************************************************)
(* Characters and character classes of the regular expressions.            *)
(***************************************************************************)
UpperSeq == "ABCDEFGHIJKLMNOPQRSTUVWXYZ"
LowerSeq == "abcdefghijklmnopqrstuvwxyz"
DigitSeq == "0123456789"

Chars(s) == { SubSeq(s, k, k) : k \in 1..Len(s) }

Upper == Chars(UpperSeq)
Lower == Chars(LowerSeq)
Digit == Chars(DigitSeq)
Letter == Upper \cup Lower
\* the characters of U+0080..U+00FF that \w of a str pattern takes (letters
\* and numerals); \d takes none of that range
Latin1WordSeq == "ª²³µ¹º¼½¾ÀÁÂÃÄÅÆÇÈÉÊËÌÍÎÏÐÑÒÓÔÕÖØÙÚÛÜÝÞßàáâãäåæçèéêëìíîïðñòóôõöøùúûüýþÿ"
\* \w of a str pattern, which decides \b
WordChar == Letter \cup Digit \cup {"_"} \cup Chars(Latin1WordSeq)
\* \s of a str pattern, and what str.strip() and str.split() take: \t \n \f
\* \r, then U+000B, U+001C..U+001F, the space, U+0085 and U+00A0
SpaceSeq == "\t\n\f\r  "
Space == Chars(SpaceSeq)
\* [789]
Digit789 == {"7", "8", "9"}
\* [2-9]
Digit2to9 == Digit \ {"0", "1"}
\* [a-zA-Z0-9.-]
UpiLocal == Letter \cup Digit \cup {".", "-"}
\* [a-zA-Z0-9._%+-]
EmailLocal == Letter \cup Digit \cup {".", "_", "%", "+", "-"}
\* [a-zA-Z0-9.-]
EmailDomain == Letter \cup Digit \cup {".", "-"}

Char(s, i) == SubSeq(s, i, i)

InClass(s, i, class) == i >= 1 /\ i <= Len(s) /\ Char(s, i) \in class

\* every character of s[a..b] is in class (and the span lies inside s)
AllIn(s, a, b, class) == b <= Len(s) /\ \A k \in a..b : Char(s, k) \in class

\* \b before position i (i in 1..Len(s)+1)
WordBoundary(s, i) == InClass(s, i - 1, WordChar) # InClass(s, i, WordChar)

\* length of the longest run of class characters starting at position i
RECURSIVE RunLen(_, _, _)
RunLen(s, i, class) ==
    IF InClass(s, i, class) THEN 1 + RunLen(s, i + 1, class) ELSE 0

RECURSIVE Xs(_)
Xs(n) == IF n <= 0 THEN "" ELSE "X" \o Xs(n - 1)

\* s[:n]
Prefix(s, n) == SubSeq(s, 1, IF n < Len(s) THEN n ELSE Len(s))
\* s[-n:]
Suffix(s, n) == SubSeq(s, IF n < Len(s) THEN Len(s) - n + 1 ELSE 1, Len(s))

\* str.strip()
RECURSIVE LStrip(_)
LStrip(s) == IF InClass(s, 1, Space) THEN LStrip(SubSeq(s, 2, Len(s))) ELSE s
RECURSIVE RStrip(_)
RStrip(s) == IF InClass(s, Len(s), Space) THEN RStrip(SubSeq(s, 1, Len(s) - 1)) ELSE s
Strip(s) == RStrip(LStrip(s))

\* re.sub(r'[class]', '', s)
RECURSIVE RemoveChars(_, _)
RemoveChars(s, class) ==
    IF s = "" THEN ""
    ELSE (IF Char(s, 1) \in class THEN "" ELSE Char(s, 1))
         \o RemoveChars(SubSeq(s, 2, Len(s)), class)

\* position of the first c in s at or after i, 0 when there is none
RECURSIVE IndexOf(_, _, _)
IndexOf(s, c, i) ==
    IF i > Len(s) THEN 0
    ELSE IF Char(s, i) = c THEN i ELSE IndexOf(s, c, i + 1)

\* str.lower(), applied by the code to words of [A-Z][a-z]+ only
LowerChar(c) ==
    IF c \in Upper
    THEN Char(LowerSeq, CHOOSE k \in 1..26 : Char(UpperSeq, k) = c)
    ELSE c
RECURSIVE ToLower(_)
ToLower(s) ==
    IF s = "" THEN "" ELSE LowerChar(Char(s, 1)) \o ToLower(SubSeq(s, 2, Len(s)))

\* str.replace(old, new), old non-empty
RECURSIVE StrReplace(_, _, _)
StrReplace(s, old, new) ==
    IF Len(s) < Len(old) \/ old = "" THEN s
    ELSE IF SubSeq(s, 1, Len(old)) = old
         THEN new \o StrReplace(SubSeq(s, Len(old) + 1, Len(s)), old, new)
         ELSE Char(s, 1) \o StrReplace(SubSeq(s, 2, Len(s)), old, new)

(***************************************************************************)
(* The compiled patterns of __init__: the length of the match starting at  *)
(* position i, 0 when the pattern does not match there.                    *)
(***************************************************************************)
\* patterns['phone'] = \b\d{10}\b
patterns_phone(s, i) ==
    IF /\ WordBoundary(s, i)
       /\ AllIn(s, i, i + 9, Digit)
       /\ WordBoundary(s, i + 10)
    THEN 10 ELSE 0

\* patterns['aadhar'] = \b[2-9]\d{3}\s?\d{4}\s?\d{4}\b
patterns_aadhar(s, i) ==
    LET s1 == IF InClass(s, i + 4, Space) THEN 1 ELSE 0
        s2 == IF InClass(s, i + 8 + s1, Space) THEN 1 ELSE 0
        n  == 12 + s1 + s2
    IN  IF /\ WordBoundary(s, i)
           /\ InClass(s, i, Digit2to9)
           /\ AllIn(s, i + 1, i + 3, Digit)
           /\ AllIn(s, i + 4 + s1, i + 7 + s1, Digit)
           /\ AllIn(s, i + 8 + s1 + s2, i + 11 + s1 + s2, Digit)
           /\ WordBoundary(s, i + n)
        THEN n ELSE 0

\* patterns['passport'] = \b[A-Z]\d{7}\b with re.IGNORECASE
patterns_passport(s, i) ==
    IF /\ WordBoundary(s, i)
       /\ InClass(s, i, Letter)
       /\ AllIn(s, i + 1, i + 7, Digit)
       /\ WordBoundary(s, i + 8)
    THEN 8 ELSE 0

\* patterns['upi'] = \b[a-zA-Z0-9.-]{2,256}@[a-zA-Z]{2,64}\b
\* '@' is outside the local class, so the local part is the whole run up to
\* it; the domain's greedy run must itself end at a \b, a shorter one ends
\* between two letters.
patterns_upi(s, i) ==
    LET l == RunLen(s, i, UpiLocal)
        d == RunLen(s, i + l + 1, Letter)
    IN  IF /\ WordBoundary(s, i)
           /\ l >= 2 /\ l <= 256
           /\ InClass(s, i + l, {"@"})
           /\ d >= 2 /\ d <= 64
           /\ WordBoundary(s, i + l + 1 + d)
        THEN l + 1 + d ELSE 0

\* patterns['email'] = \b[a-zA-Z0-9._%+-]+@[a-zA-Z0-9.-]+\.[a-zA-Z]{2,}\b
\* The greedy domain backtracks to the rightmost '.' after which a whole
\* run of two or more letters ends at a \b.
patterns_email(s, i) ==
    LET l == RunLen(s, i, EmailLocal)
        a == i + l + 1
        r == RunLen(s, a, EmailDomain)
        dots == { p \in (a + 1)..(a + r - 1) :
                    /\ Char(s, p) = "."
                    /\ RunLen(s, p + 1, Letter) >= 2
                    /\ WordBoundary(s, p + 1 + RunLen(s, p + 1, Letter)) }
    IN  IF /\ WordBoundary(s, i)
           /\ l >= 1
           /\ InClass(s, i + l, {"@"})
           /\ dots # {}
        THEN LET p == CHOOSE q \in dots : \A q2 \in dots : q2 <= q
             IN  p + RunLen(s, p + 1, Letter) - i + 1
        ELSE 0

\* phone_variations[0] = \b\+91[-\s]?[789]\d{9}\b
phone_variations_0(s, i) ==
    LET sep == IF InClass(s, i + 3, {"-"} \cup Space) THEN 1 ELSE 0
        n   == 13 + sep
    IN  IF /\ WordBoundary(s, i)
           /\ i + 2 <= Len(s) /\ SubSeq(s, i, i + 2) = "+91"
           /\ InClass(s, i + 3 + sep, Digit789)
           /\ AllIn(s, i + 4 + sep, i + 12 + sep, Digit)
           /\ WordBoundary(s, i + n)
        THEN n ELSE 0

\* phone_variations[1] = \b91[789]\d{9}\b
phone_variations_1(s, i) ==
    IF /\ WordBoundary(s, i)
       /\ i + 1 <= Len(s) /\ SubSeq(s, i, i + 1) = "91"
       /\ InClass(s, i + 2, Digit789)
       /\ AllIn(s, i + 3, i + 11, Digit)
       /\ WordBoundary(s, i + 12)
    THEN 12 ELSE 0

\* phone_variations[2] = \b[789]\d{9}\b
phone_variations_2(s, i) ==
    IF /\ WordBoundary(s, i)
       /\ InClass(s, i, Digit789)
       /\ AllIn(s, i + 1, i + 9, Digit)
       /\ WordBoundary(s, i + 10)
    THEN 10 ELSE 0

\* name_pattern = \b[A-Z][a-z]+\s+[A-Z][a-z]+\b
name_pattern(s, i) ==
    LET l1 == RunLen(s, i + 1, Lower)
        w  == RunLen(s, i + 1 + l1, Space)
        j  == i + 1 + l1 + w
        l2 == RunLen(s, j + 1, Lower)
    IN  IF /\ WordBoundary(s, i)
           /\ InClass(s, i, Upper)
           /\ l1 >= 1 /\ w >= 1
           /\ InClass(s, j, Upper)
           /\ l2 >= 1
           /\ WordBoundary(s, j + 1 + l2)
        THEN j + l2 - i + 1 ELSE 0

\* the pattern named pat, matched at position i
MatchLen(pat, s, i) ==
    CASE pat = "phone"    -> patterns_phone(s, i)
      [] pat = "aadhar"   -> patterns_aadhar(s, i)
      [] pat = "passport" -> patterns_passport(s, i)
      [] pat = "upi"      -> patterns_upi(s, i)
      [] pat = "email"    -> patterns_email(s, i)
      [] pat = "var0"     -> phone_variations_0(s, i)
      [] pat = "var1"     -> phone_variations_1(s, i)
      [] pat = "var2"     -> phone_variations_2(s, i)
      [] pat = "name"     -> name_pattern(s, i)

\* pattern.search(s) is not None
re_search(pat, s) == \E i \in 1..Len(s) : MatchLen(pat, s, i) > 0

\* pattern.findall(s): the non-overlapping matches, left to right
RECURSIVE re_findall(_, _, _)
re_findall(pat, s, i) ==
    IF i > Len(s) THEN << >>
    ELSE LET n == MatchLen(pat, s, i)
         IN  IF n > 0
             THEN << SubSeq(s, i, i + n - 1) >> \o re_findall(pat, s, i + n)
             ELSE re_findall(pat, s, i + 1)

\* pattern.sub(repl, s) from position i on; Repl(pat, m) is the replacement
\* of the match m.  A \b of a later match still sees the original text.
\* phone_variations: m.group()[:2] + 'X' * (len(m.group()) - 4) + m.group()[-2:]
repl_phone_variation(m) == Prefix(m, 2) \o Xs(Len(m) - 4) \o Suffix(m, 2)

\* patterns['phone']: m.group()[:2] + 'X' * 6 + m.group()[-2:]
repl_phone(m) == Prefix(m, 2) \o Xs(6) \o Suffix(m, 2)

\* redact_aadhar(match)
redact_aadhar(m) ==
    IF " " \in Chars(m)
    THEN "XXXX XXXX " \o Suffix(m, 4)
    ELSE "XXXXXXXX" \o Suffix(m, 4)

\* m.group().split('@')[0][:3] + 'XXX@' + m.group().split('@')[1]
repl_upi(m) ==
    LET at == IndexOf(m, "@", 1)
    IN  Prefix(SubSeq(m, 1, at - 1), 3) \o "XXX@" \o SubSeq(m, at + 1, Len(m))

\* redact_email(match)
redact_email(m) ==
    LET at == IndexOf(m, "@", 1)
        local == SubSeq(m, 1, at - 1)
        domain == SubSeq(m, at + 1, Len(m))
    IN  IF Len(local) > 3
        THEN Prefix(local, 3) \o "XXX@" \o domain
        ELSE "XXX@" \o domain

Repl(pat, m) ==
    CASE pat \in {"var0", "var1", "var2"} -> repl_phone_variation(m)
      [] pat = "phone"    -> repl_phone(m)
      [] pat = "aadhar"   -> redact_aadhar(m)
      [] pat = "passport" -> "[REDACTED_PASSPORT]"
      [] pat = "upi"      -> repl_upi(m)
      [] pat = "email"    -> redact_email(m)

RECURSIVE re_sub(_, _, _)
re_sub(pat, s, i) ==
    IF i > Len(s) THEN ""
    ELSE LET n == MatchLen(pat, s, i)
         IN  IF n > 0
             THEN Repl(pat, SubSeq(s, i, i + n - 1)) \o re_sub(pat, s, i + n)
             ELSE Char(s, i) \o re_sub(pat, s, i + 1)

(***************************************************************************)
(* The detectors.  Each takes a Python str.                                *)
(***************************************************************************)
is_phone_number(txt) ==
    IF txt = "" THEN FALSE
    ELSE LET str_text == Strip(txt)
             cleaned == RemoveChars(str_text, {"-", "(", ")"} \cup Space)
         IN  \/ re_search("phone", cleaned)
             \/ re_search("var0", str_text)
             \/ re_search("var1", str_text)
             \/ re_search("var2", str_text)

is_aadhar_number(txt) ==
    IF txt = "" THEN FALSE
    ELSE LET str_text == Strip(txt)
             cleaned == RemoveChars(str_text, Space)
         IN  \/ re_search("aadhar", str_text)
             \* re.match(r'^[2-9]\d{11}$', cleaned)
             \/ /\ Len(cleaned) = 12
                /\ InClass(cleaned, 1, Digit2to9)
                /\ AllIn(cleaned, 2, 12, Digit)

is_passport_number(txt) ==
    IF txt = "" THEN FALSE ELSE re_search("passport", Strip(txt))

is_upi_id(txt) ==
    IF txt = "" THEN FALSE ELSE re_search("upi", Strip(txt))

is_email(txt) ==
    IF txt = "" THEN FALSE ELSE re_search("email", Strip(txt))

\* the false positives extract_names skips
NameStopWords ==
    {"new", "york", "san", "los", "las", "north", "south", "east", "west"}

\* match.split() of a name_pattern match: its two words
NameWords(m) ==
    LET l1 == RunLen(m, 2, Lower)
        w  == RunLen(m, 2 + l1, Space)
    IN  << SubSeq(m, 1, 1 + l1), SubSeq(m, 2 + l1 + w, Len(m)) >>

extract_names(txt) ==
    IF txt = "" THEN << >>
    ELSE SelectSeq(re_findall("name", Strip(txt), 1),
                   LAMBDA m : \A k \in 1..2 :
                                ToLower(NameWords(m)[k]) \notin NameStopWords)

\* the loop of the 'name' branch: redacted = redacted.replace(name, masked)
RECURSIVE redact_names(_, _, _)
redact_names(redacted, names, k) ==
    IF k > Len(names) THEN redacted
    ELSE LET parts == NameWords(names[k])
             mask == Char(parts[1], 1) \o "XXX " \o Char(parts[2], 1) \o "XXX"
         IN  redact_names(StrReplace(redacted, names[k], mask), names, k + 1)

redact_text(txt, etype) ==
    IF txt = "" THEN ""
    ELSE LET redacted == Strip(txt)
         IN  CASE etype = "phone" ->
                    re_sub("phone",
                      re_sub("var2",
                        re_sub("var1",
                          re_sub("var0", redacted, 1), 1), 1), 1)
               [] etype = "aadhar"   -> re_sub("aadhar", redacted, 1)
               [] etype = "passport" -> re_sub("passport", redacted, 1)
               [] etype = "upi"      -> re_sub("upi", redacted, 1)
               [] etype = "email"    -> re_sub("email", redacted, 1)
               [] etype = "name"     ->
                    redact_names(redacted, extract_names(redacted), 1)
               [] OTHER -> redacted

(***************************************************************************)
(* Records.  A JSON value is tagged with its Python type and carries       *)
(* str(value) in s; a record (a dict) is the sequence of its fields in     *)
(* insertion order, keys distinct.                                         *)
(***************************************************************************)
PyNone == [t |-> "none", s |-> "None"]
PyStr(s) == [t |-> "str", s |-> s]
PyInt(digits) == [t |-> "int", s |-> digits]

\* the mutant of IsEmptyValue: only None is skipped
IsEmptyValueNoneOnly(value) == value.t = "none"

\* value is None or value == ''
IsEmptyValue(value) == value.t = "none" \/ (value.t = "str" /\ value.s = "")

\* key in d
HasKey(d, key) == \E i \in 1..Len(d) : d[i].k = key

\* d[key]
DictGet(d, key) == d[CHOOSE i \in 1..Len(d) : d[i].k = key].v

\* the mutant of DictSet: an update as del d[key] followed by an insertion
DictSetReinsert(d, key, value) ==
    Append(SelectSeq(d, LAMBDA f : f.k # key), [k |-> key, v |-> value])

\* d[key] = value: an existing key keeps its place, a new one goes last
DictSet(d, key, value) ==
    IF HasKey(d, key)
    THEN [i \in 1..Len(d) |->
            IF d[i].k = key THEN [k |-> key, v |-> value] ELSE d[i]]
    ELSE Append(d, [k |-> key, v |-> value])

\* list(d.keys())
DictKeys(d) == [i \in 1..Len(d) |-> d[i].k]

\* the keys of combinatorial_elements, in the dict's order
BucketOrder == << "name", "email", "address", "device_id", "ip_address" >>
Buckets == { BucketOrder[i] : i \in 1..Len(BucketOrder) }
EmptyBuckets == [b \in Buckets |-> << >>]

\* the mutant of StandaloneType: the aadhar check made before the phone check
StandaloneTypeAadharFirst(key, str_value) ==
    IF key = "aadhar" \/ is_aadhar_number(str_value) THEN "aadhar"
    ELSE IF key \in {"phone", "contact"} \/ is_phone_number(str_value) THEN "phone"
    ELSE IF key = "passport" \/ is_passport_number(str_value) THEN "passport"
    ELSE IF key = "upi_id" \/ is_upi_id(str_value) THEN "upi"
    ELSE "none"

\* the if/elif chain of lines 173-187: the entity type the field is
\* redacted as, "none" when no standalone check matches
StandaloneType(key, str_value) ==
    IF key \in {"phone", "contact"} \/ is_phone_number(str_value) THEN "phone"
    ELSE IF key = "aadhar" \/ is_aadhar_number(str_value) THEN "aadhar"
    ELSE IF key = "passport" \/ is_passport_number(str_value) THEN "passport"
    ELSE IF key = "upi_id" \/ is_upi_id(str_value) THEN "upi"
    ELSE "none"

\* the if/elif chain of lines 190-201: the bucket the key is appended to,
\* "none" when it is appended to no bucket
CombinatorialBucket(d, key, str_value) ==
    IF key = "name" \/ (key \in {"first_name", "last_name"} /\ ~HasKey(d, "name"))
    THEN IF extract_names(str_value) # << >> \/ key \in {"first_name", "last_name"}
         THEN "name" ELSE "none"
    ELSE IF key = "email" \/ is_email(str_value) THEN "email"
    ELSE IF key \in {"address", "city", "pin_code", "state"} THEN "address"
    ELSE IF key \in {"device_id", "ip_address"} THEN key
    ELSE "none"

\* the mutant of SetHasPii: has_pii assigned from this field alone
SetHasPiiLastWins(prev, etype) == etype # "none"

\* has_pii = True in the branch of a standalone match, untouched otherwise
SetHasPii(prev, etype) == prev \/ etype # "none"

\* one iteration of "for key, value in data.items()" on field i of d, from
\* the locals st = [has_pii, redacted_data, combinatorial_elements]
LoopBody(st, d, i) ==
    LET key == d[i].k
        value == d[i].v
    IN  IF IsEmptyValue(value)
        THEN [st EXCEPT !.redacted_data = DictSet(@, key, value)]
        ELSE LET str_value == Strip(value.s)
                 etype == StandaloneType(key, str_value)
                 bucket == CombinatorialBucket(d, key, str_value)
             IN  [ has_pii |-> SetHasPii(st.has_pii, etype),
                   redacted_data |->
                       DictSet(st.redacted_data, key,
                               PyStr(IF etype # "none"
                                     THEN redact_text(str_value, etype)
                                     ELSE str_value)),
                   combinatorial_elements |->
                       IF bucket = "none" THEN st.combinatorial_elements
                       ELSE [st.combinatorial_elements EXCEPT
                                ![bucket] = Append(@, key)] ]

\* sum(1 for elements in combinatorial_elements.values() if elements)
combinatorial_count(ce) == Cardinality({ b \in Buckets : ce[b] # << >> })

\* the body of "for field in fields" for one element_type
RedactField(rd, element_type, field) ==
    IF ~HasKey(rd, field) THEN rd
    ELSE CASE element_type \in {"name", "email"} ->
                DictSet(rd, field,
                        PyStr(redact_text(DictGet(rd, field).s, element_type)))
           [] element_type = "device_id" ->
                DictSet(rd, field, PyStr("[REDACTED_DEVICE_ID]"))
           [] element_type = "ip_address" ->
                DictSet(rd, field, PyStr("[REDACTED_IP_ADDRESS]"))
           [] OTHER -> rd

RECURSIVE RedactFields(_, _, _, _)
RedactFields(rd, element_type, fields, k) ==
    IF k > Len(fields) THEN rd
    ELSE RedactFields(RedactField(rd, element_type, fields[k]),
                      element_type, fields, k + 1)

\* "for element_type, fields in combinatorial_elements.items()"
RECURSIVE RedactBuckets(_, _, _)
RedactBuckets(rd, ce, b) ==
    IF b > Len(BucketOrder) THEN rd
    ELSE RedactBuckets(RedactFields(rd, BucketOrder[b], ce[BucketOrder[b]], 1),
                       ce, b + 1)

\* the mutant of CombinatorialPass: the threshold taken as >= 1
CombinatorialPassAtOne(st) ==
    IF combinatorial_count(st.combinatorial_elements) >= 1
    THEN [st EXCEPT !.has_pii = TRUE,
                    !.redacted_data =
                        RedactBuckets(@, st.combinatorial_elements, 1)]
    ELSE st

\* lines 205-219: the count and the redaction of the combinatorial elements
CombinatorialPass(st) ==
    IF combinatorial_count(st.combinatorial_elements) >= 2
    THEN [st EXCEPT !.has_pii = TRUE,
                    !.redacted_data =
                        RedactBuckets(@, st.combinatorial_elements, 1)]
    ELSE st

\* the locals at line 152-162
InitialLocals ==
    [ has_pii |-> FALSE, redacted_data |-> << >>,
      combinatorial_elements |-> EmptyBuckets ]

\* the locals after the loop has processed the first n fields of d
RECURSIVE LoopState(_, _)
LoopState(d, n) ==
    IF n = 0 THEN InitialLocals ELSE LoopBody(LoopState(d, n - 1), d, n)

\* analyze_record(data): [has_pii, redacted_data] (and the buckets)
analyze_record(d) == CombinatorialPass(LoopState(d, Len(d)))

(***************************************************************************)
(* Spec: analyze_record on one record.  The loop runs one field per step,  *)
(* then the combinatorial pass returns.                                    *)
(***************************************************************************)
MaxFields == 2

\* the fields a record is built from
FieldPool ==
    { [k |-> "phone",      v |-> PyStr("9876543210")],
      [k |-> "phone",      v |-> PyInt("9876543210")],
      [k |-> "phone",      v |-> PyNone],
      [k |-> "contact",    v |-> PyStr("98765-43210")],
      [k |-> "aadhar",     v |-> PyStr("2345 6789 0123")],
      [k |-> "aadhar",     v |-> PyStr("")],
      [k |-> "passport",   v |-> PyStr("P1234567")],
      [k |-> "upi_id",     v |-> PyStr("john.doe@okaxis")],
      [k |-> "upi_id",     v |-> PyStr("")],
      [k |-> "name",       v |-> PyStr("Rahul Sharma")],
      [k |-> "name",       v |-> PyStr("rahul@x.com")],
      [k |-> "name",       v |-> PyStr("")],
      [k |-> "first_name", v |-> PyStr("rahul")],
      [k |-> "first_name", v |-> PyNone],
      [k |-> "email",      v |-> PyStr("rahul@x.com")],
      [k |-> "email",      v |-> PyStr("a+bcd@okaxis.com")],
      [k |-> "email",      v |-> PyStr("none")],
      [k |-> "email",      v |-> PyStr("")],
      [k |-> "city",       v |-> PyStr("Mumbai ")],
      [k |-> "address",    v |-> PyStr("12 MG Road")],
      [k |-> "pin_code",   v |-> PyInt("560001")],
      [k |-> "device_id",  v |-> PyStr("9876543210")],
      [k |-> "device_id",  v |-> PyNone],
      [k |-> "ip_address", v |-> PyStr("10.0.0.1")],
      [k |-> "age",        v |-> PyInt("25")],
      [k |-> "ref",        v |-> PyStr("919876543210")],
      [k |-> "note",       v |-> PyStr("Rahul Sharma")],
      [k |-> "note",       v |-> PyStr("rahul@x.com")] }

\* a dict's keys are distinct
DistinctKeys(d) == \A i, j \in 1..Len(d) : i # j => d[i].k # d[j].k

IdleMask == text = "" /\ entity_type = "" /\ masked = "" /\ mpc = "idle"
IdleCsv ==
    /\ rows = << >> /\ bom = FALSE /\ stops = << >>
    /\ enc = 0 /\ row_count = 0
    /\ results = << >> /\ file_read = FALSE /\ output = << >> /\ cpc = "idle"
IdleRec ==
    /\ data = << >> /\ idx = 0 /\ has_pii = FALSE /\ redacted_data = << >>
    /\ combinatorial_elements = EmptyBuckets /\ pc = "idle"

Locals ==
    [ has_pii |-> has_pii, redacted_data |-> redacted_data,
      combinatorial_elements |-> combinatorial_elements ]

SetLocals(st) ==
    /\ has_pii' = st.has_pii
    /\ redacted_data' = st.redacted_data
    /\ combinatorial_elements' = st.combinatorial_elements

\* a record of 1..MaxFields fields enters analyze_record
Init ==
    /\ \E n \in 1..MaxFields : data \in [1..n -> FieldPool]
    /\ DistinctKeys(data)
    /\ idx = 0
    /\ has_pii = InitialLocals.has_pii
    /\ redacted_data = InitialLocals.redacted_data
    /\ combinatorial_elements = InitialLocals.combinatorial_elements
    /\ pc = "loop"
    /\ IdleMask
    /\ IdleCsv

\* one iteration of the loop over data.items()
LoopIteration ==
    /\ pc = "loop"
    /\ idx < Len(data)
    /\ SetLocals(LoopBody(Locals, data, idx + 1))
    /\ idx' = idx + 1
    /\ UNCHANGED << data, pc, maskVars, csvVars >>

\* the loop is over: the combinatorial pass, and the return
CombinatorialStep ==
    /\ pc = "loop"
    /\ idx = Len(data)
    /\ SetLocals(CombinatorialPass(Locals))
    /\ pc' = "done"
    /\ UNCHANGED << data, idx, maskVars, csvVars >>

Next == LoopIteration \/ CombinatorialStep

Spec == Init /\ [][Next]_vars

(***************************************************************************)
(* What the claims about analyze_record speak of, stated from their own    *)
(* words and not through the operators above.                              *)
(***************************************************************************)
\* a null or empty-string value
NullOrEmptyString(value) == value.t = "none" \/ value = PyStr("")

\* the normalised text of a non-empty value: str(value).strip()
StrValue(f) == Strip(f.v.s)

\* the field fires a Standalone category, by key or by value pattern
FiresStandalone(f) ==
    /\ ~NullOrEmptyString(f.v)
    /\ \/ f.k \in {"phone", "contact", "aadhar", "passport", "upi_id"}
       \/ is_phone_number(StrValue(f))
       \/ is_aadhar_number(StrValue(f))
       \/ is_passport_number(StrValue(f))
       \/ is_upi_id(StrValue(f))

\* the first standalone category the field matches, in the order Phone,
\* NationalID, Passport, PaymentHandle
FirstStandalone(f) ==
    CASE f.k \in {"phone", "contact"} \/ is_phone_number(StrValue(f)) -> "phone"
      [] OTHER ->
    CASE f.k = "aadhar" \/ is_aadhar_number(StrValue(f)) -> "aadhar"
      [] OTHER ->
    CASE f.k = "passport" \/ is_passport_number(StrValue(f)) -> "passport"
      [] OTHER -> "upi"

\* the Combinatorial categories a non-empty field of record d fires.  Name
\* is read at its narrowest (a name-shaped value under the key name, or a
\* first_name/last_name key with no sibling name key): every wider reading
\* of the classifier rules fires whenever this one does.
FiredCombinatorial(d, f) ==
    IF NullOrEmptyString(f.v) THEN {}
    ELSE { c \in Buckets :
             \/ c = "email" /\ (f.k = "email" \/ is_email(StrValue(f)))
             \/ c = "name" /\ \/ f.k = "name" /\ extract_names(StrValue(f)) # << >>
                              \/ f.k \in {"first_name", "last_name"}
                                 /\ \A j \in 1..Len(d) : d[j].k # "name"
             \/ c = "address" /\ f.k \in {"address", "city", "pin_code", "state"}
             \/ c = "device_id" /\ f.k = "device_id"
             \/ c = "ip_address" /\ f.k = "ip_address" }

\* the bucket that lists the key, "none" when no bucket does
BucketOf(key) ==
    IF \E b \in Buckets : \E n \in 1..Len(combinatorial_elements[b]) :
            combinatorial_elements[b][n] = key
    THEN CHOOSE b \in Buckets : \E n \in 1..Len(combinatorial_elements[b]) :
            combinatorial_elements[b][n] = key
    ELSE "none"

NonEmptyBuckets == { b \in Buckets : combinatorial_elements[b] # << >> }

\* the output value of field i of data
Out(i) == DictGet(redacted_data, data[i].k)

Fields == 1..Len(data)

\* C1: has_pii is true iff some non-empty field fires a Standalone category
\* or at least two distinct Combinatorial categories fire across the record.
C1_HasPiiIff ==
    pc = "done" =>
        ( has_pii <=>
            \/ \E i \in Fields : FiresStandalone(data[i])
            \/ Cardinality(UNION { FiredCombinatorial(data, data[i]) :
                                     i \in Fields }) >= 2 )

\* C2: the redacted record has the keys of the input, in the input's order.
C2_KeysPreserved ==
    /\ pc = "done" => DictKeys(redacted_data) = DictKeys(data)
    /\ pc = "loop" => DictKeys(redacted_data) = DictKeys(SubSeq(data, 1, idx))

\* a record where one field was masked in the per-field pass and another in
\* the combinatorial pass
C2_Witness ==
    /\ pc = "done"
    /\ \E i, j \in Fields :
          /\ i # j
          /\ FiresStandalone(data[i])
          /\ Out(i) # PyStr(StrValue(data[i]))
          /\ ~FiresStandalone(data[j])
          /\ Out(j) # PyStr(StrValue(data[j]))

\* C3: a null or empty-string field is copied unchanged whatever its key,
\* processing it sets neither has_pii nor any bucket, and it is still
\* unchanged in the returned record.
C3_EmptyPassThrough ==
    /\ [](pc = "done" =>
            \A i \in Fields :
                NullOrEmptyString(data[i].v) =>
                    Out(i) = data[i].v /\ BucketOf(data[i].k) = "none")
    /\ [][ ( /\ pc = "loop"
             /\ idx < Len(data)
             /\ NullOrEmptyString(data[idx + 1].v) )
           => ( /\ has_pii' = has_pii
                /\ combinatorial_elements' = combinatorial_elements
                /\ redacted_data' = Append(redacted_data, data[idx + 1]) ) ]_vars

\* an empty field under a PII key, returned beside a field that was masked
C3_Witness ==
    /\ pc = "done"
    /\ has_pii
    /\ \E i, j \in Fields :
          /\ NullOrEmptyString(data[i].v)
          /\ data[i].k \in {"phone", "contact", "aadhar", "passport", "upi_id",
                            "email", "first_name", "address", "device_id",
                            "ip_address"}
          /\ Out(i) = data[i].v
          /\ FiresStandalone(data[j])

\* field i fed the verdict: it matched a standalone category, or it is in a
\* bucket of a record with two or more non-empty buckets
Contributed(i) ==
    \/ FiresStandalone(data[i])
    \/ BucketOf(data[i].k) # "none" /\ Cardinality(NonEmptyBuckets) >= 2

OneCategoryOnly ==
    /\ Cardinality(NonEmptyBuckets) = 1
    /\ \A i \in Fields : ~FiresStandalone(data[i])

\* C4 as claimed: a field that did not contribute is output with exactly its
\* input value, and a record with one combinatorial category and no
\* standalone one is not PII.
C4_UnredactedExact ==
    pc = "done" =>
        /\ \A i \in Fields : ~Contributed(i) => Out(i) = data[i].v
        /\ OneCategoryOnly => ~has_pii

\* C4 amended: such a field is output as its input value's text, str(value)
\* stripped of surrounding whitespace (null and '' as they are).
C4_UnredactedNormalised ==
    pc = "done" =>
        /\ \A i \in Fields :
              ~Contributed(i) =>
                  Out(i) = IF NullOrEmptyString(data[i].v) THEN data[i].v
                           ELSE PyStr(StrValue(data[i]))
        /\ OneCategoryOnly => ~has_pii

\* one combinatorial category alone, its field returned unmasked
C4_Witness ==
    /\ pc = "done"
    /\ OneCategoryOnly
    /\ ~has_pii
    /\ \E i \in Fields :
          /\ BucketOf(data[i].k) # "none"
          /\ Out(i) = PyStr(StrValue(data[i]))
          /\ Out(i) # data[i].v

\* C5: records holding the same key/value pairs in another order get the
\* same has_pii and the same redacted value under every key.
C5_OrderIndependent ==
    pc = "done" =>
        \A p \in Permutations(Fields) :
            LET r == analyze_record([i \in Fields |-> data[p[i]]])
            IN  /\ r.has_pii = has_pii
                /\ \A i \in Fields :
                      DictGet(r.redacted_data, data[i].k) = Out(i)

\* a record of several fields, a masked one after an unmasked one
C5_Witness ==
    /\ pc = "done"
    /\ has_pii
    /\ \E i, j \in Fields :
          /\ i < j
          /\ Out(i) = PyStr(StrValue(data[i]))
          /\ ~NullOrEmptyString(data[j].v)
          /\ Out(j) # PyStr(StrValue(data[j]))

\* the standalone mask of field i
StandaloneMasked(i) == redact_text(StrValue(data[i]), FirstStandalone(data[i]))

\* the mask the combinatorial pass applies for a bucket
BucketMasked(b, s) ==
    CASE b \in {"name", "email"} -> redact_text(s, b)
      [] b = "device_id" -> "[REDACTED_DEVICE_ID]"
      [] b = "ip_address" -> "[REDACTED_IP_ADDRESS]"
      [] OTHER -> s

\* C8 as claimed: the mask of the first-matched standalone category is the
\* field's final value, also when the field is in a bucket and two or more
\* buckets are non-empty.
C8_StandaloneMaskFinal ==
    pc = "done" =>
        \A i \in Fields :
            FiresStandalone(data[i]) => Out(i) = PyStr(StandaloneMasked(i))

\* C8 amended: the field is masked as its first-matched standalone category;
\* when it is also in a bucket and two or more buckets are non-empty, the
\* combinatorial pass applies the bucket's mask to that masked value.
C8_StandaloneThenBucketMask ==
    pc = "done" =>
        \A i \in Fields :
            FiresStandalone(data[i]) =>
                Out(i) = PyStr(IF Cardinality(NonEmptyBuckets) >= 2
                               THEN BucketMasked(BucketOf(data[i].k),
                                                 StandaloneMasked(i))
                               ELSE StandaloneMasked(i))

\* a standalone-masked field that the combinatorial pass masked again
C8_Witness ==
    /\ pc = "done"
    /\ Cardinality(NonEmptyBuckets) >= 2
    /\ \E i \in Fields :
          /\ FiresStandalone(data[i])
          /\ BucketOf(data[i].k) # "none"
          /\ StandaloneMasked(i) # StrValue(data[i])
          /\ Out(i) # PyStr(StandaloneMasked(i))

\* C9: with two or more non-empty buckets every field of every non-empty
\* bucket is output masked, not with its original value.
C9_AllBucketFieldsRedacted ==
    (pc = "done" /\ Cardinality(NonEmptyBuckets) >= 2) =>
        \A i \in Fields :
            BucketOf(data[i].k) # "none" =>
                /\ Out(i) # data[i].v
                /\ Out(i) # PyStr(StrValue(data[i]))

(***************************************************************************)
(* SpecMask: redact_text on one value.  analyze_record hands redact_text   *)
(* text it has stripped, so the values carry no surrounding whitespace.    *)
(***************************************************************************)
MaskCores ==
    { "9876543210", "98765-43210", "(987) 654-3210", "+919876543210",
      "+91 9876543210", "919876543210", "1234567890",
      "234567890123", "2345 6789 0123", "2345 67890123", "23 4567 8901 23",
      "2345\t6789\t0123", "234567890123", "9876543210",
      "é9876543210", "123456789012",
      "P1234567", "john.doe@okaxis", "rahul@x.com", "Rahul Sharma" }
MaskPrefixes == { "", "id ", "x" }
MaskSuffixes == { "", " x", "." }
MaskTexts ==
    { a \o c \o b : a \in MaskPrefixes, c \in MaskCores, b \in MaskSuffixes }
EntityTypes == { "phone", "aadhar", "passport", "upi", "email", "name" }

InitMask ==
    /\ text \in MaskTexts
    /\ entity_type \in EntityTypes
    /\ masked = ""
    /\ mpc = "call"
    /\ IdleRec
    /\ IdleCsv

\* redacted = self.redact_text(text, entity_type)
Redact ==
    /\ mpc = "call"
    /\ masked' = redact_text(text, entity_type)
    /\ mpc' = "ret"
    /\ UNCHANGED << text, entity_type, recVars, csvVars >>

NextMask == Redact

SpecMask == InitMask /\ [][NextMask]_vars

\* C6: for a value that matches the Phone patterns the Phone mask has the
\* input's length, keeps its first 2 and last 2 characters, and the
\* interior of the matched span is replaced by X characters: some
\* character became X and no character changed into anything else.
C6_PhoneMaskShape ==
    (mpc = "ret" /\ entity_type = "phone" /\ is_phone_number(text)) =>
        /\ Len(masked) = Len(text)
        /\ Prefix(masked, 2) = Prefix(text, 2)
        /\ Suffix(masked, 2) = Suffix(text, 2)
        /\ \E k \in 1..Len(text) : Char(masked, k) # Char(text, k)
        /\ \A k \in 1..Len(text) :
              Char(masked, k) # Char(text, k) => Char(masked, k) = "X"

\* the value is a 12-digit number, first digit 2-9, contiguous or grouped
\* by whitespace
TwelveDigitNumber(s) ==
    LET cleaned == RemoveChars(s, Space)
    IN  /\ Len(cleaned) = 12
        /\ Char(cleaned, 1) \in Digit2to9
        /\ Chars(cleaned) \subseteq Digit

DigitsAfter(s, k) ==
    Cardinality({ j \in (k + 1)..Len(s) : Char(s, j) \in Digit })

\* C7: for a value detected as a NationalID the mask replaces every digit
\* but the final 4 with X, keeps the last 4 digits and leaves every
\* separator where it was.
C7_AadharMaskShape ==
    ( /\ mpc = "ret" /\ entity_type = "aadhar"
      /\ TwelveDigitNumber(text) /\ is_aadhar_number(text) ) =>
        /\ Len(masked) = Len(text)
        /\ \A k \in 1..Len(text) :
              Char(masked, k) =
                  IF Char(text, k) \in Digit /\ DigitsAfter(text, k) >= 4
                  THEN "X" ELSE Char(text, k)

(***************************************************************************)
(* SpecCsv: process_csv on one file.  rows are the rows csv.DictReader     *)
(* yields, as far as some encoding reaches them: a row's record_id, its    *)
(* JSON payload column (NoColumn when the header has no such column) and   *)
(* whether it has more cells than the header.  stops gives, for each pass  *)
(* begun, the exception that ends it before the reader is exhausted, if    *)
(* any, and its place: 0 is lines 239-252 (open, readline, seek), k is     *)
(* the reader's fetch of row k at line 256.  The exception is a            *)
(* UnicodeDecodeError (a file is decoded a buffer at a time, so a bad      *)
(* byte also fails the rows before it in its buffer) or another one, as    *)
(* OSError from open and csv.Error from the reader.  The stop of a pass    *)
(* is a fact of the file's bytes; it is drawn when the pass begins, from   *)
(* the stops those bytes can still have after the passes before it.  With  *)
(* a byte order mark the first column, record_id, is named record_id       *)
(* under utf-8-sig alone.  The bytes that decode differently under the     *)
(* four encodings lie outside the two columns, the file does not change    *)
(* during the run, and standard output takes every print.                  *)
(***************************************************************************)
MaxRows == 3

NoColumn == [kind |-> "nocolumn"]
\* row[json_column] is '' (or None, a short row)
EmptyPayload == [kind |-> "empty"]
\* json.loads raises JSONDecodeError
InvalidPayload == [kind |-> "invalid", raw |-> "{oops"]
\* lines 269-274 raise another exception than JSONDecodeError: json.loads
\* gives a list, a number, a string or null and analyze_record raises
\* AttributeError on data.items(), or json.loads raises ValueError or
\* RecursionError
ArrayPayload == [kind |-> "array"]
ObjectPayload(d) == [kind |-> "object", json_data |-> d]

Payloads ==
    { EmptyPayload, InvalidPayload, ArrayPayload,
      ObjectPayload(<< [k |-> "phone", v |-> PyStr("9876543210")] >>),
      ObjectPayload(<< [k |-> "city", v |-> PyStr("Mumbai")] >>) }

RowIds == << "a", "b", "c", "d", "e" >>

Row(id, payload, surplus) ==
    [ record_id |-> id, data_json |-> payload, surplus |-> surplus ]

\* the files of 0..MaxRows rows with a JSON column, with or without a
\* record_id column
JsonFiles ==
    UNION { { [i \in 1..n |->
                 Row(IF hasId THEN PyStr(RowIds[i]) ELSE NoColumn, p[i], FALSE)] :
              p \in [1..n -> Payloads], hasId \in BOOLEAN }
            : n \in 0..MaxRows }

\* the files without a JSON column, each row as long as the header or longer
PlainFiles ==
    UNION { { [i \in 1..n |-> Row(PyStr(RowIds[i]), NoColumn, long[i])] :
              long \in [1..n -> BOOLEAN] }
            : n \in 1..MaxRows }

\* one row with a JSON column: longer than the header, or too short to
\* reach the record_id column behind the payload (row['record_id'] is None)
OddFiles ==
    { << Row(PyStr("a"), p, TRUE) >> : p \in Payloads }
    \cup { << Row(PyNone, p, FALSE) >> : p \in Payloads }

CsvFiles == JsonFiles \cup PlainFiles \cup OddFiles

\* encodings = ['utf-8', 'utf-8-sig', 'latin-1', 'cp1252']
encodings == << "utf-8", "utf-8-sig", "latin-1", "cp1252" >>

\* the place of an exception that is not raised
NoFailure == -1
\* the pass reads the file to its end
NoStop == [kind |-> "none", at |-> NoFailure]
\* UnicodeDecodeError at place k
DecodeStop(k) == IF k = NoFailure THEN NoStop ELSE [kind |-> "decode", at |-> k]
\* another exception at place k: OSError at 0, csv.Error from row 1 on
ErrorStop(k) == [kind |-> "error", at |-> k]

\* the stops of the first pass, utf-8, over a file of n rows
Utf8Stops(n) ==
    { NoStop }
    \cup { DecodeStop(a) : a \in 0..(n + 1) }
    \cup { ErrorStop(k) : k \in 0..(n + 1) }

\* the stops of the utf-8-sig pass: those of utf-8, but a file that is a
\* piece of a byte order mark is read as empty, and the mark does not
\* count in the length of the header's first field
SigStops(prev, n) ==
    { prev[1] }
    \cup (IF prev[1] = DecodeStop(0) /\ n = 0 THEN { NoStop } ELSE {})
    \cup (IF bom /\ prev[1] = ErrorStop(1)
          THEN { NoStop } \cup { DecodeStop(a) : a \in 1..(n + 1) }
                          \cup { ErrorStop(k) : k \in 1..(n + 1) }
          ELSE {})

\* the stops of the latin-1 pass, which decodes every byte: a field over
\* the reader's limit, at the latest where utf-8 or utf-8-sig met one (a
\* field has no fewer bytes than characters) and, when one of them read
\* the file to its end, at one of the n rows; none only when the passes
\* before met no such field and stopped at rows that latin-1 yields
Latin1Stops(prev, n) ==
    (IF \A e \in 1..Len(prev) : prev[e].kind # "error" /\ prev[e].at <= n
     THEN { NoStop } ELSE {})
    \cup { ErrorStop(k) : k \in { q \in 1..(n + 1) :
              \A e \in 1..Len(prev) :
                 /\ prev[e].kind = "error" => q <= prev[e].at
                 /\ prev[e] = NoStop => q <= n } }

\* the stops of the cp1252 pass: that of latin-1 (one character a byte),
\* or a byte that cp1252 cannot decode no later than it; readline at line
\* 241 decodes the whole header, so when it is the header that is over
\* the limit (utf-8 and utf-8-sig differ on it) such a byte fails at place
\* 0 or not before the limit does
Cp1252Stops(prev, n) ==
    { prev[3] }
    \cup { DecodeStop(c) :
              c \in 0..(IF prev[3] = NoStop THEN n
                        ELSE IF prev[1] = ErrorStop(1) /\ prev[2] # prev[1] THEN 0
                        ELSE prev[3].at) }

\* the stops the next pass can have after the passes with the stops prev;
\* a file that cannot be opened (OSError at place 0) cannot under any
\* encoding
NextStops(prev, n) ==
    IF prev[1] = ErrorStop(0) THEN { ErrorStop(0) }
    ELSE CASE Len(prev) = 1 -> SigStops(prev, n)
           [] Len(prev) = 2 -> Latin1Stops(prev, n)
           [] Len(prev) = 3 -> Cp1252Stops(prev, n)

InitCsv ==
    /\ rows \in CsvFiles
    \* the mark precedes the name of the first column, record_id; a row
    \* too short to reach record_id has that column further right
    /\ bom \in BOOLEAN
    /\ bom => \A i \in 1..Len(rows) : rows[i].record_id # PyNone
    /\ \E s \in Utf8Stops(Len(rows)) : stops = << s >>
    /\ enc = 1
    \* row_count is unbound until line 255 (and never read before)
    /\ row_count = 0
    /\ results = << >>
    /\ file_read = FALSE
    /\ output = << >>
    /\ cpc = "open"
    /\ IdleRec
    /\ IdleMask

\* json_column and row[json_column]
HasJsonPayload(row) == row.data_json.kind \notin {"nocolumn", "empty"}

\* row.get('record_id', str(row_count)): the byte order mark is part of the
\* first column's name unless utf-8-sig removed it
RecordId(row, n) ==
    IF row.record_id = NoColumn \/ (bom /\ encodings[enc] # "utf-8-sig")
    THEN PyStr(ToString(n))
    ELSE row.record_id

\* the result of lines 267-287 for a row whose payload json.loads accepts
\* as an object, or rejects
RowResult(row, n) ==
    IF row.data_json.kind = "object"
    THEN LET a == analyze_record(row.data_json.json_data)
         IN  [ record_id |-> RecordId(row, n),
               redacted_data |-> a.redacted_data,
               is_pii |-> a.has_pii ]
    ELSE [ record_id |-> RecordId(row, n),
           redacted_data |-> row.data_json.raw,
           is_pii |-> FALSE ]

\* the row raises an Exception that line 298 catches: col.lower() on the
\* None key of a long row (reached when no column before it names json),
\* or lines 269-274 on a payload that is not an object
RowRaises(row) ==
    \/ row.data_json.kind = "nocolumn" /\ row.surplus
    \/ row.data_json.kind = "array"

\* "continue" of the loop over encodings: the next one, or the loop's end
NextEncoding ==
    IF enc < Len(encodings)
    THEN /\ enc' = enc + 1
         /\ cpc' = "open"
         /\ \E s \in NextStops(stops, Len(rows)) : stops' = Append(stops, s)
    ELSE enc' = enc /\ cpc' = "after" /\ UNCHANGED stops

\* where the pass is: 0 in lines 239-252, k at the fetch of row k
Place == IF cpc = "open" THEN 0 ELSE row_count + 1

\* the encoding being tried raises its exception at place k
FailsAt(k) == stops[enc].kind # "none" /\ stops[enc].at = k

\* lines 239-255: open, readline, seek, the reader, row_count = 0
OpenFile ==
    /\ cpc = "open"
    /\ ~FailsAt(0)
    /\ row_count' = 0
    /\ cpc' = "rows"
    /\ UNCHANGED << rows, bom, stops, enc, results, file_read, output,
                    recVars, maskVars >>

\* one iteration of "for row in reader"
ReadRow ==
    /\ cpc = "rows"
    /\ row_count < Len(rows)
    /\ ~FailsAt(row_count + 1)
    /\ row_count' = row_count + 1
    /\ LET row == rows[row_count + 1]
       IN  IF RowRaises(row)
           THEN \* except Exception as e: continue
                /\ NextEncoding
                /\ UNCHANGED results
           ELSE /\ results' = IF HasJsonPayload(row)
                              THEN Append(results, RowResult(row, row_count + 1))
                              ELSE results
                /\ UNCHANGED << enc, cpc, stops >>
    /\ UNCHANGED << rows, bom, file_read, output, recVars, maskVars >>

\* except UnicodeDecodeError: continue, raised by f.readline() or by the
\* reader's fetch of the next row
DecodeError ==
    /\ cpc \in {"open", "rows"}
    /\ FailsAt(Place)
    /\ stops[enc].kind = "decode"
    /\ NextEncoding
    /\ UNCHANGED << rows, bom, row_count, results, file_read,
                    output, recVars, maskVars >>

\* except Exception as e: continue, raised by open (OSError) or by the
\* reader's fetch of the next row (csv.Error); the row is not counted
ReadError ==
    /\ cpc \in {"open", "rows"}
    /\ FailsAt(Place)
    /\ stops[enc].kind = "error"
    /\ NextEncoding
    /\ UNCHANGED << rows, bom, row_count, results, file_read,
                    output, recVars, maskVars >>

\* the reader is exhausted: file_read = True; break
PassDone ==
    /\ cpc = "rows"
    /\ row_count = Len(rows)
    /\ ~FailsAt(row_count + 1)
    /\ file_read' = TRUE
    /\ cpc' = "after"
    /\ UNCHANGED << rows, bom, stops, enc, row_count, results, output,
                    recVars, maskVars >>

\* lines 302-322: no encoding read the file (exit 1), or the results are
\* written, or there is nothing to write
Finish ==
    /\ cpc = "after"
    /\ IF ~file_read
       THEN cpc' = "exit1" /\ UNCHANGED output
       ELSE IF results # << >>
            THEN cpc' = "written" /\ output' = results
            ELSE cpc' = "nothing" /\ UNCHANGED output
    /\ UNCHANGED << rows, bom, stops, enc, row_count, results, file_read,
                    recVars, maskVars >>

\* an entry of the output file cut short by the failure of a write
Fragment(result) == [fragment_of |-> result]

\* lines 307-310 raise OSError into line 324 or 328 (exit 1): open of the
\* output file, which then holds nothing, or a write or the close of the
\* file, which leave on it the entries written so far, to all of them,
\* the last one whole or cut short
WriteError ==
    /\ cpc = "after"
    /\ file_read
    /\ results # << >>
    /\ cpc' = "exit1"
    /\ \E k \in 0..Len(results) :
          \/ output' = SubSeq(results, 1, k)
          \/ /\ k < Len(results)
             /\ output' = Append(SubSeq(results, 1, k), Fragment(results[k + 1]))
    /\ UNCHANGED << rows, bom, stops, enc, row_count, results, file_read,
                    recVars, maskVars >>

NextCsv ==
    OpenFile \/ ReadRow \/ DecodeError \/ ReadError \/ PassDone \/ Finish
    \/ WriteError

SpecCsv == InitCsv /\ [][NextCsv]_vars

\* C10: every input row with a non-empty JSON payload column yields exactly
\* one entry in the written results, whatever encodings were tried.
C10_OneEntryPerRow ==
    cpc = "written" =>
        Len(output) = Cardinality({ i \in 1..Len(rows) : HasJsonPayload(rows[i]) })

====
